---- MODULE Spec2Model ----
(***************************************************************************)
(* Verification model of three pieces of the provider:                     *)
(*   - the VerifierWorkspaceId resource ID (construct, format, parse,      *)
(*     validate), vendored go-azure-sdk reachabilityanalysisruns package;  *)
(*   - expand/flatten of the activity log alert criteria block;            *)
(*   - the activity log alert CRUD functions.                              *)
(*                                                                         *)
(* A Go string is modelled by the sequence strings.Split(s, "/") returns:  *)
(* a non-empty sequence of slash-free words, so "" is <<"">> and "/a/b"    *)
(* is <<"", "a", "b">>.  Words are atoms; letter case is modelled by the   *)
(* table ToLower.                                                          *)
(***************************************************************************)
EXTENDS Integers, Sequences, FiniteSets, TLC

VARIABLES
    input,      \* the interface{} value handed to Parse.../Validate...: [type, val]
    id,         \* the VerifierWorkspaceId value held by the caller, or NilId
    err,        \* the error returned by the last parse
    out,        \* the string returned by the last call of ID(), or NoStr
    ops,        \* the calls made so far, oldest first
    id0,        \* the VerifierWorkspaceId that out was formatted from, or the
                \* receiver FromParseResult was called on
    warnings,   \* first result of ValidateVerifierWorkspaceID
    errors,     \* second result of ValidateVerifierWorkspaceID
    criteria,   \* the criteria block of the configuration: schema key -> string
    condition,  \* the condition sent to or received from the API, or NilCondition
    flat,       \* what flattenMonitorActivityLogAlertCriteria returned, or NoFlat
    cops,       \* the criteria functions called so far, oldest first
    d,          \* the *schema.ResourceData of the activity log alert
    remote,     \* the activity log alerts that exist in Azure: <<resource group, name>>
    remoteEnabled, \* those of them whose properties.enabled is true
    remoteCondition, \* the properties.condition of each of them
    ret,        \* the error the last CRUD function returned
    calls,      \* the API calls the CRUD function made, with their responses
    crud,       \* the CRUD function that was called, "" before one is;
                \* "Destroy" once the framework has dealt with what Delete returned
    pc,         \* where the CRUD function waits to make its next call ("L238",
                \* "L242", "L251"), "" when none is running
    prior,      \* the resource data and the alerts when the CRUD function was called
    others      \* whether another actor changed the alerts while it ran

idVars == <<input, id, err, out, ops, id0, warnings, errors>>

criteriaVars == <<criteria, condition, flat, cops>>

crudVars == <<d, remote, remoteEnabled, remoteCondition, ret, calls, crud, pc, prior, others>>

vars == <<idVars, criteriaVars, crudVars>>

-----------------------------------------------------------------------------
(* Bounds *)

\* how many components of a well-formed ID an input string may deviate in
MaxEdits == 2

-----------------------------------------------------------------------------
(* Strings *)

\* strings.ToLower, as a table: every word with an upper-case letter that the
\* model hands to ToLower or EqualFold has its entry; a word without an
\* upper-case letter is returned as it is
ToLower(w) ==
    CASE w = "SUBSCRIPTIONS" -> "subscriptions"
      [] w = "resourceGroups" -> "resourcegroups"
      [] w = "Providers" -> "providers"
      [] w = "Microsoft.Network" -> "microsoft.network"
      [] w = "networkManagers" -> "networkmanagers"
      [] w = "NETWORKMANAGERS" -> "networkmanagers"
      [] w = "verifierWorkspaces" -> "verifierworkspaces"
      [] w = "storageAccounts" -> "storageaccounts"
      [] w = "activityLogAlerts" -> "activitylogalerts"
      [] w = "metricAlerts" -> "metricalerts"
      [] w = "Category" -> "category"
      [] w = "CATEGORY" -> "category"
      [] w = "operationName" -> "operationname"
      [] w = "OperationName" -> "operationname"
      [] w = "OPERATIONNAME" -> "operationname"
      [] w = "Caller" -> "caller"
      [] w = "CALLER" -> "caller"
      [] w = "Level" -> "level"
      [] w = "LEVEL" -> "level"
      [] w = "resourceProvider" -> "resourceprovider"
      [] w = "ResourceProvider" -> "resourceprovider"
      [] w = "RESOURCEPROVIDER" -> "resourceprovider"
      [] w = "resourceType" -> "resourcetype"
      [] w = "ResourceType" -> "resourcetype"
      [] w = "RESOURCETYPE" -> "resourcetype"
      [] w = "resourceGroup" -> "resourcegroup"
      [] w = "ResourceGroup" -> "resourcegroup"
      [] w = "RESOURCEGROUP" -> "resourcegroup"
      [] w = "resourceId" -> "resourceid"
      [] w = "ResourceId" -> "resourceid"
      [] w = "RESOURCEID" -> "resourceid"
      [] w = "Status" -> "status"
      [] w = "STATUS" -> "status"
      [] w = "subStatus" -> "substatus"
      [] w = "SubStatus" -> "substatus"
      [] w = "SUBSTATUS" -> "substatus"
      [] w = "properties.recommendationType" -> "properties.recommendationtype"
      [] w = "Properties.RecommendationType" -> "properties.recommendationtype"
      [] w = "PROPERTIES.RECOMMENDATIONTYPE" -> "properties.recommendationtype"
      [] w = "properties.recommendationCategory" -> "properties.recommendationcategory"
      [] w = "Properties.RecommendationCategory" -> "properties.recommendationcategory"
      [] w = "PROPERTIES.RECOMMENDATIONCATEGORY" -> "properties.recommendationcategory"
      [] w = "properties.recommendationImpact" -> "properties.recommendationimpact"
      [] w = "Properties.RecommendationImpact" -> "properties.recommendationimpact"
      [] w = "PROPERTIES.RECOMMENDATIONIMPACT" -> "properties.recommendationimpact"
      [] w = "Properties.recommendationType" -> "properties.recommendationtype"
      [] w = "properties.RecommendationCategory" -> "properties.recommendationcategory"
      [] w = "PROPERTIES.recommendationImpact" -> "properties.recommendationimpact"
      [] w = "containsAny" -> "containsany"
      [] w = "ContainsAny" -> "containsany"
      [] OTHER -> w

\* strings.EqualFold
EqualFold(a, b) == ToLower(a) = ToLower(b)

\* concatenation of two words of which at least one is empty
WordCat(a, b) == IF a = "" THEN b ELSE a

\* concatenation of two strings in split form: the last word of s and the
\* first word of t run together
Cat(s, t) ==
    SubSeq(s, 1, Len(s) - 1) \o <<WordCat(s[Len(s)], t[1])>> \o Tail(t)

\* strings.TrimPrefix(s, "/")
TrimLeadingSlash(s) == IF Len(s) > 1 /\ s[1] = "" THEN Tail(s) ELSE s

NoStr == <<>>

\* no value handed to the parse and validate functions yet
NoInput == [type |-> "none", val |-> NoStr]

-----------------------------------------------------------------------------
(* Errors *)

NoErr == [kind |-> "nil", key |-> "", wrap |-> ""]

\* resourceids.NewSegmentNotSpecifiedError(id, key, input)
NewSegmentNotSpecifiedError(key) ==
    [kind |-> "SegmentNotSpecified", key |-> key, wrap |-> ""]

SegmentMismatchError(key) ==
    [kind |-> "SegmentMismatch", key |-> key, wrap |-> ""]

\* the error of an input with the wrong number of path components
WrongNumberOfComponentsError ==
    [kind |-> "WrongNumberOfComponents", key |-> "", wrap |-> ""]

NotAStringError == [kind |-> "ExpectedString", key |-> "", wrap |-> ""]

\* fmt.Errorf("parsing %q: %+v", input, err): the text of err is kept
WrapParsing(e) == [e EXCEPT !.wrap = "parsing"]

-----------------------------------------------------------------------------
(* VerifierWorkspaceId *)

NilId == [nil |-> TRUE]

\* NewVerifierWorkspaceID
NewVerifierWorkspaceID(subscriptionId, resourceGroupName, networkManagerName, verifierWorkspaceName) ==
    [SubscriptionId |-> subscriptionId,
     ResourceGroupName |-> resourceGroupName,
     NetworkManagerName |-> networkManagerName,
     VerifierWorkspaceName |-> verifierWorkspaceName]

\* a formatter that writes the two names in the wrong places
IDSwapped(v) ==
    Cat(Cat(Cat(Cat(Cat(Cat(Cat(
        <<"", "subscriptions", "">>, v.SubscriptionId),
        <<"", "resourceGroups", "">>), v.ResourceGroupName),
        <<"", "providers", "Microsoft.Network", "networkManagers", "">>),
        v.VerifierWorkspaceName),
        <<"", "verifierWorkspaces", "">>), v.NetworkManagerName)

\* a formatter whose format string spells the provider namespace in lower case
IDLowerProvider(v) ==
    Cat(Cat(Cat(Cat(Cat(Cat(Cat(
        <<"", "subscriptions", "">>, v.SubscriptionId),
        <<"", "resourceGroups", "">>), v.ResourceGroupName),
        <<"", "providers", "microsoft.network", "networkManagers", "">>),
        v.NetworkManagerName),
        <<"", "verifierWorkspaces", "">>), v.VerifierWorkspaceName)

\* VerifierWorkspaceId.ID: fmt.Sprintf of the four fields into
\* "/subscriptions/%s/resourceGroups/%s/providers/Microsoft.Network/networkManagers/%s/verifierWorkspaces/%s"
ID(v) ==
    Cat(Cat(Cat(Cat(Cat(Cat(Cat(
        <<"", "subscriptions", "">>, v.SubscriptionId),
        <<"", "resourceGroups", "">>), v.ResourceGroupName),
        <<"", "providers", "Microsoft.Network", "networkManagers", "">>),
        v.NetworkManagerName),
        <<"", "verifierWorkspaces", "">>), v.VerifierWorkspaceName)

\* VerifierWorkspaceId.Segments
Segments ==
    << [type |-> "Static", name |-> "staticSubscriptions", value |-> "subscriptions"],
       [type |-> "SubscriptionId", name |-> "subscriptionId", value |-> "12345678-1234-9876-4563-123456789012"],
       [type |-> "Static", name |-> "staticResourceGroups", value |-> "resourceGroups"],
       [type |-> "ResourceGroup", name |-> "resourceGroupName", value |-> "example-resource-group"],
       [type |-> "Static", name |-> "staticProviders", value |-> "providers"],
       [type |-> "ResourceProvider", name |-> "staticMicrosoftNetwork", value |-> "Microsoft.Network"],
       [type |-> "Static", name |-> "staticNetworkManagers", value |-> "networkManagers"],
       [type |-> "UserSpecified", name |-> "networkManagerName", value |-> "networkManagerName"],
       [type |-> "Static", name |-> "staticVerifierWorkspaces", value |-> "verifierWorkspaces"],
       [type |-> "UserSpecified", name |-> "verifierWorkspaceName", value |-> "verifierWorkspaceName"] >>

IsStaticType(t) == t \in {"Static", "ResourceProvider"}

\* the keys of the segments that capture a value, in segment order
DynamicKeys ==
    <<"subscriptionId", "resourceGroupName", "networkManagerName", "verifierWorkspaceName">>

-----------------------------------------------------------------------------
(* resourceids.Parser *)

\* the path components the parser matches against the segment list
Components(s) ==
    LET t == TrimLeadingSlash(s) IN IF t = <<"">> THEN <<>> ELSE t

\* the parser's verdict on the component at position i: NoErr or the error.
\* A static segment matches its literal, case-insensitively when asked to
\* or when it is the resource provider segment, and a component that differs
\* is a segment mismatch; a capturing segment takes any non-empty component,
\* and an empty or absent one is a segment that is not specified.  An input
\* that ends before a static segment has the wrong number of components.
ParseSegment(segment, comps, i, insensitively) ==
    IF IsStaticType(segment.type)
    THEN IF i > Len(comps)
         THEN WrongNumberOfComponentsError
         ELSE IF comps[i] = segment.value
                 \/ ((insensitively \/ segment.type = "ResourceProvider")
                     /\ EqualFold(comps[i], segment.value))
         THEN NoErr
         ELSE SegmentMismatchError(segment.name)
    ELSE IF i > Len(comps) \/ comps[i] = ""
         THEN NewSegmentNotSpecifiedError(segment.name)
         ELSE NoErr

\* Parser.Parse: positional match of the components against the segments.
\* Only an input with as many components as there are segments, each of
\* which matches, yields a ParseResult; a failure yields no entry at all.
\* The results the parser may return, one for each error it may report: an
\* input that lacks a required component fails with segment-not-specified
\* naming a component it lacks; for any other input nothing says which of
\* its defects (a mismatching literal, the wrong number of components) is
\* reported, so any of them may be.
ParserParse(segments, s, insensitively) ==
    LET comps == Components(s)
        failures ==
            ({ParseSegment(segments[i], comps, i, insensitively) :
                 i \in 1..Len(segments)} \ {NoErr})
            \cup (IF Len(comps) # Len(segments)
                  THEN {WrongNumberOfComponentsError} ELSE {})
        missing == {e \in failures : e.kind = "SegmentNotSpecified"}
        reported == IF missing # {} THEN missing ELSE failures
    IN  IF failures # {}
        THEN {[ok |-> FALSE, Parsed |-> << >>, err |-> e] : e \in reported}
        ELSE {[ok |-> TRUE,
               Parsed |-> [k \in {segments[i].name : i \in
                                   {j \in 1..Len(segments) : ~IsStaticType(segments[j].type)}}
                             |-> <<comps[CHOOSE i \in 1..Len(segments) : segments[i].name = k]>>],
               err |-> NoErr]}

-----------------------------------------------------------------------------
(* Parsing and validating a VerifierWorkspaceId *)

\* the value input.Parsed[k] reads: the zero value "" when k is absent
Lookup(parsed, k) == IF k \in DOMAIN parsed THEN parsed[k] ELSE <<"">>

\* a method called on a nil *VerifierWorkspaceId that writes a field panics
NilPointerDereference == [kind |-> "panic: nil pointer dereference", key |-> "", wrap |-> ""]

\* VerifierWorkspaceId{}
ZeroId == NewVerifierWorkspaceID(<<"">>, <<"">>, <<"">>, <<"">>)

\* VerifierWorkspaceId.FromParseResult on the receiver recv: each of the
\* four fields is assigned from input.Parsed and then tested,
\* if id.X, ok = input.Parsed[k]; !ok { return NewSegmentNotSpecifiedError(id, k, input) }
\* so the first key that is missing is reported, with the fields up to it
\* already written into the receiver (the missing one as ""); id is the
\* receiver after the call
FromParseResult(recv, parsed) ==
    LET r1 == [recv EXCEPT !.SubscriptionId = Lookup(parsed, "subscriptionId")]
        r2 == [r1 EXCEPT !.ResourceGroupName = Lookup(parsed, "resourceGroupName")]
        r3 == [r2 EXCEPT !.NetworkManagerName = Lookup(parsed, "networkManagerName")]
        r4 == [r3 EXCEPT !.VerifierWorkspaceName = Lookup(parsed, "verifierWorkspaceName")]
    IN  IF recv = NilId
        THEN [id |-> NilId, err |-> NilPointerDereference]
        ELSE IF "subscriptionId" \notin DOMAIN parsed
        THEN [id |-> r1, err |-> NewSegmentNotSpecifiedError("subscriptionId")]
        ELSE IF "resourceGroupName" \notin DOMAIN parsed
        THEN [id |-> r2, err |-> NewSegmentNotSpecifiedError("resourceGroupName")]
        ELSE IF "networkManagerName" \notin DOMAIN parsed
        THEN [id |-> r3, err |-> NewSegmentNotSpecifiedError("networkManagerName")]
        ELSE IF "verifierWorkspaceName" \notin DOMAIN parsed
        THEN [id |-> r4, err |-> NewSegmentNotSpecifiedError("verifierWorkspaceName")]
        ELSE [id |-> r4, err |-> NoErr]

\* a parse that returns an empty VerifierWorkspaceId beside the error
ParseWithReturnsEmptyId(s, insensitively) ==
    {IF parsed.err # NoErr
     THEN [id |-> ZeroId, err |-> WrapParsing(parsed.err)]
     ELSE IF FromParseResult(ZeroId, parsed.Parsed).err # NoErr
     THEN [id |-> ZeroId, err |-> FromParseResult(ZeroId, parsed.Parsed).err]
     ELSE FromParseResult(ZeroId, parsed.Parsed) :
        parsed \in ParserParse(Segments, s, insensitively)}

\* the body shared by the two parse functions, as the set of what it may
\* return (one result for each result of the parser): the parser's error
\* is wrapped and returned with nil; FromParseResult runs on
\* id := VerifierWorkspaceId{} and on its error nil is returned, not the
\* receiver
ParseWith(s, insensitively) ==
    {IF parsed.err # NoErr
     THEN [id |-> NilId, err |-> WrapParsing(parsed.err)]
     ELSE IF FromParseResult(ZeroId, parsed.Parsed).err # NoErr
     THEN [id |-> NilId, err |-> FromParseResult(ZeroId, parsed.Parsed).err]
     ELSE FromParseResult(ZeroId, parsed.Parsed) :
        parsed \in ParserParse(Segments, s, insensitively)}

\* a case-sensitive parse that asks the parser for the insensitive match
ParseAsInsensitive(s) == ParseWith(s, TRUE)

\* ParseVerifierWorkspaceID
ParseVerifierWorkspaceID(s) == ParseWith(s, FALSE)

\* an insensitive parse that asks the parser for the case-sensitive match
ParseAsSensitive(s) == ParseWith(s, FALSE)

\* ParseVerifierWorkspaceIDInsensitively
ParseVerifierWorkspaceIDInsensitively(s) == ParseWith(s, TRUE)

\* a validator that lets a value that is no string pass
ValidateNoTypeCheck(in) ==
    IF in.type # "string"
    THEN {[warnings |-> <<>>, errors |-> <<>>]}
    ELSE {[warnings |-> <<>>,
           errors |-> IF r.err # NoErr THEN <<r.err>> ELSE <<>>] :
             r \in ParseVerifierWorkspaceID(in.val)}

\* ValidateVerifierWorkspaceID, as the set of what it may return (one
\* result for each result of ParseVerifierWorkspaceID)
ValidateVerifierWorkspaceID(in) ==
    IF in.type # "string"
    THEN {[warnings |-> <<>>, errors |-> <<NotAStringError>>]}
    ELSE {[warnings |-> <<>>,
           errors |-> IF r.err # NoErr THEN <<r.err>> ELSE <<>>] :
             r \in ParseVerifierWorkspaceID(in.val)}

-----------------------------------------------------------------------------
(* Activity log alert criteria: expand and flatten *)

\* a nil *string
Nil == "<nil>"

\* a nil *[]insights.ActivityLogAlertLeafCondition, and a pointer to a list
NilList == [nil |-> TRUE, elems |-> <<>>]
ListOf(conditions) == [nil |-> FALSE, elems |-> conditions]

\* a nil *insights.ActivityLogAlertAllOfCondition
NilCondition == [nil |-> TRUE, AllOf |-> NilList]

NoFlat == <<>>

\* the string fields of the criteria block of the schema
CriteriaKeys ==
    {"category", "operation_name", "caller", "level", "resource_provider",
     "resource_type", "resource_group", "resource_id", "status", "sub_status",
     "recommendation_type", "recommendation_category", "recommendation_impact"}

\* a step of expand that appends the condition whatever the value
AppendAlways(conditions, field, value) ==
    Append(conditions, [Field |-> field, Equals |-> value])

\* one step of expandMonitorActivityLogAlertCriteria:
\* if x := v[key].(string); x != "" { conditions = append(conditions, {Field, Equals}) }
AppendIfSet(conditions, field, value) ==
    IF value # ""
    THEN Append(conditions, [Field |-> field, Equals |-> value])
    ELSE conditions

\* expandMonitorActivityLogAlertCriteria
expandMonitorActivityLogAlertCriteria(in) ==
    LET v == in[1]
        c1 == AppendIfSet(<<>>, "category", v["category"])
        c2 == AppendIfSet(c1, "operationName", v["operation_name"])
        c3 == AppendIfSet(c2, "caller", v["caller"])
        c4 == AppendIfSet(c3, "level", v["level"])
        c5 == AppendIfSet(c4, "resourceProvider", v["resource_provider"])
        c6 == AppendIfSet(c5, "resourceType", v["resource_type"])
        c7 == AppendIfSet(c6, "resourceGroup", v["resource_group"])
        c8 == AppendIfSet(c7, "resourceId", v["resource_id"])
        c9 == AppendIfSet(c8, "status", v["status"])
        c10 == AppendIfSet(c9, "subStatus", v["sub_status"])
        c11 == AppendIfSet(c10, "properties.recommendationType", v["recommendation_type"])
        c12 == AppendIfSet(c11, "properties.recommendationCategory", v["recommendation_category"])
        c13 == AppendIfSet(c12, "properties.recommendationImpact", v["recommendation_impact"])
    IN  [nil |-> FALSE, AllOf |-> ListOf(c13)]

NoKey == "<none>"

\* a switch whose resourcetype case stores under the key of the next case
ResultKeyTypeAsGroup(field) ==
    LET l == ToLower(field) IN
    CASE l = "operationname" -> "operation_name"
      [] l = "resourceprovider" -> "resource_provider"
      [] l = "resourcetype" -> "resource_group"
      [] l = "resourcegroup" -> "resource_group"
      [] l = "resourceid" -> "resource_id"
      [] l = "substatus" -> "sub_status"
      [] l = "properties.recommendationtype" -> "recommendation_type"
      [] l = "properties.recommendationcategory" -> "recommendation_category"
      [] l = "properties.recommendationimpact" -> "recommendation_impact"
      [] l \in {"caller", "category", "level", "status"} -> field
      [] OTHER -> NoKey

\* the switch of flattenMonitorActivityLogAlertCriteria: the key of result
\* a condition on field is stored under, NoKey when no case matches
ResultKey(field) ==
    LET l == ToLower(field) IN
    CASE l = "operationname" -> "operation_name"
      [] l = "resourceprovider" -> "resource_provider"
      [] l = "resourcetype" -> "resource_type"
      [] l = "resourcegroup" -> "resource_group"
      [] l = "resourceid" -> "resource_id"
      [] l = "substatus" -> "sub_status"
      [] l = "properties.recommendationtype" -> "recommendation_type"
      [] l = "properties.recommendationcategory" -> "recommendation_category"
      [] l = "properties.recommendationimpact" -> "recommendation_impact"
      [] l \in {"caller", "category", "level", "status"} -> field
      [] OTHER -> NoKey

\* result[k] = x on a Go map
MapPut(m, k, x) == [j \in DOMAIN m \cup {k} |-> IF j = k THEN x ELSE m[j]]

\* the body of the loop of flattenMonitorActivityLogAlertCriteria
FlattenCondition(result, c) ==
    IF c.Field # Nil /\ c.Equals # Nil /\ ResultKey(c.Field) # NoKey
    THEN MapPut(result, ResultKey(c.Field), c.Equals)
    ELSE result

RECURSIVE FlattenConditions(_, _)
FlattenConditions(result, conditions) ==
    IF conditions = <<>> THEN result
    ELSE FlattenConditions(FlattenCondition(result, Head(conditions)), Tail(conditions))

\* flattenMonitorActivityLogAlertCriteria
flattenMonitorActivityLogAlertCriteria(in) ==
    IF in.nil \/ in.AllOf.nil
    THEN << <<>> >>
    ELSE << FlattenConditions(<<>>, in.AllOf.elems) >>

-----------------------------------------------------------------------------
(* Inputs of expand and flatten *)

\* how many conditions a response of the API holds at most
MaxConditions == 2

\* a value of each criteria field, as a configuration would hold it
SampleValue(k) ==
    CASE k = "category" -> "Administrative"
      [] k = "operation_name" -> "Microsoft.Storage/storageAccounts/write"
      [] k = "caller" -> "admin@contoso.com"
      [] k = "level" -> "Error"
      [] k = "resource_provider" -> "Microsoft.Storage"
      [] k = "resource_type" -> "Microsoft.Storage/storageAccounts"
      [] k = "resource_group" -> "example-resource-group"
      [] k = "resource_id" -> "/subscriptions/s/resourceGroups/g/providers/p/t/n"
      [] k = "status" -> "Succeeded"
      [] k = "sub_status" -> "Created"
      [] k = "recommendation_type" -> "type-1"
      [] k = "recommendation_category" -> "Cost"
      [] k = "recommendation_impact" -> "High"

NoCriteria == <<>>

\* the criteria blocks: every field empty or set
CriteriaInputs ==
    {[k \in CriteriaKeys |-> IF k \in S THEN SampleValue(k) ELSE ""] : S \in SUBSET CriteriaKeys}

\* the field names a response may carry: the API's spelling of each
\* criteria field, the same name capitalised and in upper case, and one
\* name of which only a part is capitalised
ResponseFields ==
    {"category", "Category", "CATEGORY", "operationName", "OperationName",
     "OPERATIONNAME", "caller", "Caller", "CALLER", "level", "Level", "LEVEL",
     "resourceProvider", "ResourceProvider", "RESOURCEPROVIDER", "resourceType",
     "ResourceType", "RESOURCETYPE", "resourceGroup", "ResourceGroup",
     "RESOURCEGROUP", "resourceId", "ResourceId", "RESOURCEID", "status", "Status",
     "STATUS", "subStatus", "SubStatus", "SUBSTATUS",
     "properties.recommendationType", "Properties.RecommendationType",
     "PROPERTIES.RECOMMENDATIONTYPE", "properties.recommendationCategory",
     "Properties.RecommendationCategory", "PROPERTIES.RECOMMENDATIONCATEGORY",
     "properties.recommendationImpact", "Properties.RecommendationImpact",
     "PROPERTIES.RECOMMENDATIONIMPACT", "Properties.recommendationType"}

\* the conditions of a response: a known field with a value, and conditions
\* flatten skips: a field that is no criteria field, no field, no value
ResponseConditions ==
    [Field : ResponseFields, Equals : {"Administrative"}]
    \cup {[Field |-> "category", Equals |-> "Security"],
          [Field |-> "resourceType", Equals |-> "Security"],
          [Field |-> "containsAny", Equals |-> "Administrative"],
          [Field |-> Nil, Equals |-> "Administrative"],
          [Field |-> "level", Equals |-> Nil],
          [Field |-> Nil, Equals |-> Nil]}

RECURSIVE SeqsUpTo(_, _)
SeqsUpTo(S, n) ==
    IF n = 0 THEN {<<>>}
    ELSE LET T == SeqsUpTo(S, n - 1)
         IN  T \cup {Append(t, x) : t \in {u \in T : Len(u) = n - 1}, x \in S}

\* the conditions of a response: none at all, no list, or a list of up to
\* n conditions
Responses(n) ==
    {NilCondition, [nil |-> FALSE, AllOf |-> NilList]}
    \cup {[nil |-> FALSE, AllOf |-> ListOf(cs)] :
             cs \in SeqsUpTo(ResponseConditions, n)}

-----------------------------------------------------------------------------
(* Activity log alert: resource IDs and the API *)

\* the ID Azure gives the activity log alert name in resource group rg
AlertID(rg, name) ==
    <<"", "subscriptions", "12345678-1234-9876-4563-123456789012", "resourceGroups", rg,
      "providers", "microsoft.insights", "activityLogAlerts", name>>

\* azure.ParseAzureResourceID: the path is read as key/value pairs; an odd
\* number of components, an empty key or value and a missing subscription
\* are errors; resourceGroups gives ResourceGroup and the pairs that are
\* left give Path (a key that is absent reads as "")
ParseAzureResourceID(s) ==
    LET c == Components(s)
        keys == {c[i] : i \in {j \in 1..Len(c) : j % 2 = 1}}
        value(k) == IF k \in keys
                    THEN c[1 + CHOOSE i \in {j \in 1..Len(c) : j % 2 = 1} :
                                /\ c[i] = k
                                /\ \A j \in (i + 1)..Len(c) : j % 2 = 1 => c[j] # k]
                    ELSE ""
    IN  IF Len(c) % 2 = 1
        THEN [err |-> [kind |-> "OddSegments", key |-> "", wrap |-> ""],
              ResourceGroup |-> "", Path |-> [k \in {"activityLogAlerts"} |-> ""]]
        ELSE IF \E i \in 1..Len(c) : c[i] = ""
        THEN [err |-> [kind |-> "EmptyKeyOrValue", key |-> "", wrap |-> ""],
              ResourceGroup |-> "", Path |-> [k \in {"activityLogAlerts"} |-> ""]]
        ELSE IF "subscriptions" \notin keys
        THEN [err |-> [kind |-> "NoSubscriptionID", key |-> "", wrap |-> ""],
              ResourceGroup |-> "", Path |-> [k \in {"activityLogAlerts"} |-> ""]]
        ELSE [err |-> NoErr,
              ResourceGroup |-> value("resourceGroups"),
              Path |-> [k \in {"activityLogAlerts"} |-> value(k)]]

\* the outcomes of one call of the API: the call succeeds, or it fails with
\* a response of the given status, or it fails without any response
NoResponse == "no response"
StatusOK == "200 OK"
StatusNotFound == "404 Not Found"
StatusInternalServerError == "500 Internal Server Error"

ApiOutcomes ==
    {[failed |-> FALSE, status |-> StatusOK],
     [failed |-> TRUE, status |-> StatusNotFound],
     [failed |-> TRUE, status |-> StatusInternalServerError],
     [failed |-> TRUE, status |-> NoResponse]}

\* response.WasNotFound(resp.Response)
WasNotFound(o) == o.status # NoResponse /\ o.status = StatusNotFound

\* a Delete that reports every failure, not-found included
DeleteReturnsEveryFailure(o) ==
    IF o.failed
    THEN [kind |-> "ErrorDeleting", key |-> "", wrap |-> ""]
    ELSE NoErr

\* what resourceMonitorActivityLogAlertDelete returns after client.Delete
\* came back with o:
\* if resp, err := client.Delete(...); err != nil { if !response.WasNotFound(resp.Response) { return fmt.Errorf(...) } }; return nil
DeleteReturns(o) ==
    IF o.failed /\ ~WasNotFound(o)
    THEN [kind |-> "ErrorDeleting", key |-> "", wrap |-> ""]
    ELSE NoErr

-----------------------------------------------------------------------------
(* Activity log alert: Read and CreateUpdate *)

\* a nil *string that would hold a resource ID
NilID == <<Nil>>

\* utils.ResponseWasNotFound(resp.Response): false when there is no response
ResponseWasNotFound(o) == o.status # NoResponse /\ o.status = StatusNotFound

\* what d.Get("criteria") returns after d.Set("criteria", value): the list
\* of one block with every key of the schema, "" where value has none
SetCriteria(value) ==
    << [k \in CriteriaKeys |-> IF k \in DOMAIN value[1] THEN value[1][k] ELSE ""] >>

\* the criteria blocks of the resource data: the category alone, and the
\* category with a level
StoredCriteria ==
    {<<[k \in CriteriaKeys |-> IF k \in S THEN SampleValue(k) ELSE ""]>> :
        S \in {{"category"}, {"category", "level"}}}

\* the conditions of the alerts that exist at the start: one as expand
\* writes it, and one with the field name in another letter case
StoredConditions ==
    {expandMonitorActivityLogAlertCriteria(
         <<[k \in CriteriaKeys |-> IF k = "category" THEN SampleValue(k) ELSE ""]>>),
     [nil |-> FALSE,
      AllOf |-> ListOf(<<[Field |-> "Category", Equals |-> "Administrative"]>>)]}

\* the conditions another actor may give an alert: those above and those
\* expand writes for the criteria blocks of the resource data
ActorConditions ==
    StoredConditions \cup {expandMonitorActivityLogAlertCriteria(c) : c \in StoredCriteria}

\* the alerts in Azure: which exist, which of them are enabled, and the
\* condition of each
World(rem, en, cond) ==
    [remote |-> rem, remoteEnabled |-> en, remoteCondition |-> cond]

\* the alerts after another actor deleted the alert key
Without(w, key) ==
    World(w.remote \ {key}, w.remoteEnabled \ {key},
          [k \in w.remote \ {key} |-> w.remoteCondition[k]])

\* the alerts after another actor created the alert key, or changed it, to
\* be enabled or not (en) and to have the condition cond
With(w, key, en, cond) ==
    World(w.remote \cup {key},
          IF en THEN w.remoteEnabled \cup {key} ELSE w.remoteEnabled \ {key},
          [k \in w.remote \cup {key} |-> IF k = key THEN cond ELSE w.remoteCondition[k]])

\* what another actor may make of the alerts of w by acting on the alert
\* key: leave them, delete the alert, create it or change it, to any setting
\* of enabled and any of the conditions of the model
Worlds(w, key) ==
    {w, Without(w, key)}
    \cup {With(w, key, en, cond) : en \in BOOLEAN, cond \in ActorConditions}

\* the outcomes of client.Get(ctx, resourceGroup, name) on the alerts of w:
\* the call fails without a response or with a server error, with not-found
\* when the alert does not exist, or it succeeds with the alert when it
\* exists; a response that succeeded may lack the ID (nil), hold an empty
\* one, and may lack the properties
GetOutcomes(resourceGroup, name, w) ==
    LET key == <<resourceGroup, name>>
        statuses == {StatusInternalServerError, NoResponse}
                    \cup (IF key \in w.remote THEN {} ELSE {StatusNotFound})
        ids == IF key \in w.remote
               THEN {AlertID(resourceGroup, name), NilID, <<"">>}
               ELSE {}
    IN  {[failed |-> TRUE, status |-> st, ID |-> NilID, hasProperties |-> FALSE,
          Enabled |-> FALSE, Condition |-> NilCondition] : st \in statuses}
        \cup {[failed |-> FALSE, status |-> StatusOK, ID |-> i, hasProperties |-> p,
               Enabled |-> p /\ key \in w.remoteEnabled,
               Condition |-> IF p THEN w.remoteCondition[key] ELSE NilCondition] :
                 i \in ids, p \in BOOLEAN}

\* the record of a Get call of CreateUpdate and of the part of its response
\* CreateUpdate reads
GetCall(resourceGroup, name, o) ==
    [api |-> "Get", resourceGroup |-> resourceGroup, name |-> name,
     failed |-> o.failed, status |-> o.status, ID |-> o.ID]

\* the record of the Get call of Read, which does not read resp.ID
ReadGetCall(resourceGroup, name, o) ==
    [api |-> "Get", resourceGroup |-> resourceGroup, name |-> name,
     failed |-> o.failed, status |-> o.status]

CreateOrUpdateCall(resourceGroup, name, o) ==
    [api |-> "CreateOrUpdate", resourceGroup |-> resourceGroup, name |-> name,
     failed |-> o.failed, status |-> o.status]

\* fmt.Errorf("Error setting `field`: %+v", err), and the error of
\* tags.FlattenAndSet for the field tags
ErrorSetting(field) == [kind |-> "ErrorSetting", key |-> field, wrap |-> ""]

\* d.Set and tags.FlattenAndSet belong to the framework, which decides
\* whether they fail: the field whose setting fails in a run of Read, ""
\* when none does.  Only the errors of scopes, criteria, action and tags are
\* looked at, and the first three are set only when the response has
\* properties.
SetFailures(o) ==
    IF o.failed THEN {""}
    ELSE IF o.hasProperties THEN {"", "scopes", "criteria", "action", "tags"}
    ELSE {"", "tags"}

\* a Read that changes the resource data before it returns the parse error
ParseFailureClearsId(dd, e) ==
    [d |-> [dd EXCEPT !.Id = <<"">>], ret |-> e, calls |-> <<>>]

\* resourceMonitorActivityLogAlertRead when the ID does not parse:
\* id, err := azure.ParseAzureResourceID(d.Id()); if err != nil { return err }
ParseFailure(dd, e) ==
    [d |-> dd, ret |-> e, calls |-> <<>>]

\* a Read that returns nil on not-found without touching the ID
ReadAfterGetKeepsId(dd, resourceGroup, name, o, setFails) ==
    LET d1 == [dd EXCEPT !.name = name, !.resource_group_name = resourceGroup]
        d2 == IF o.hasProperties THEN [d1 EXCEPT !.enabled = o.Enabled] ELSE d1
        d3 == IF o.hasProperties
              THEN [d2 EXCEPT !.criteria =
                       SetCriteria(flattenMonitorActivityLogAlertCriteria(o.Condition))]
              ELSE d2
    IN  IF o.failed
        THEN IF ResponseWasNotFound(o)
             THEN [d |-> dd, ret |-> NoErr]
             ELSE [d |-> dd, ret |-> [kind |-> "ErrorGetting", key |-> "", wrap |-> ""]]
        ELSE IF o.hasProperties /\ setFails \in {"scopes", "criteria"}
        THEN [d |-> d2, ret |-> ErrorSetting(setFails)]
        ELSE IF o.hasProperties /\ setFails = "action"
        THEN [d |-> d3, ret |-> ErrorSetting(setFails)]
        ELSE IF setFails = "tags"
        THEN [d |-> d3, ret |-> ErrorSetting(setFails)]
        ELSE [d |-> d3, ret |-> NoErr]

\* resourceMonitorActivityLogAlertRead after client.Get came back with o:
\* not-found clears the ID and returns nil, any other failure is returned;
\* a resource is written to the resource data field by field, name and
\* resource_group_name first, then, when the response has properties,
\* enabled, scopes, criteria (flattened) and action, then the tags; the
\* first failure of setting scopes, criteria, action or tags is returned
\* with the fields before it already written
ReadAfterGet(dd, resourceGroup, name, o, setFails) ==
    LET d1 == [dd EXCEPT !.name = name, !.resource_group_name = resourceGroup]
        d2 == IF o.hasProperties THEN [d1 EXCEPT !.enabled = o.Enabled] ELSE d1
        d3 == IF o.hasProperties
              THEN [d2 EXCEPT !.criteria =
                       SetCriteria(flattenMonitorActivityLogAlertCriteria(o.Condition))]
              ELSE d2
    IN  IF o.failed
        THEN IF ResponseWasNotFound(o)
             THEN [d |-> [dd EXCEPT !.Id = <<"">>], ret |-> NoErr]
             ELSE [d |-> dd, ret |-> [kind |-> "ErrorGetting", key |-> "", wrap |-> ""]]
        ELSE IF o.hasProperties /\ setFails \in {"scopes", "criteria"}
        THEN [d |-> d2, ret |-> ErrorSetting(setFails)]
        ELSE IF o.hasProperties /\ setFails = "action"
        THEN [d |-> d3, ret |-> ErrorSetting(setFails)]
        ELSE IF setFails = "tags"
        THEN [d |-> d3, ret |-> ErrorSetting(setFails)]
        ELSE [d |-> d3, ret |-> NoErr]

\* resourceMonitorActivityLogAlertRead: the runs on resource data dd and the
\* alerts of w, one for each outcome of the Get call and of the setting of
\* the fields; a run is the resource data it leaves, what it returns and
\* the calls it made
resourceMonitorActivityLogAlertRead(dd, w) ==
    LET parsed == ParseAzureResourceID(dd.Id)
        resourceGroup == parsed.ResourceGroup
        name == parsed.Path["activityLogAlerts"]
        run(o) == {[d |-> ReadAfterGet(dd, resourceGroup, name, o, f).d,
                    ret |-> ReadAfterGet(dd, resourceGroup, name, o, f).ret,
                    calls |-> <<ReadGetCall(resourceGroup, name, o)>>] :
                      f \in SetFailures(o)}
    IN  IF parsed.err # NoErr
        THEN {ParseFailure(dd, parsed.err)}
        ELSE UNION {run(o) : o \in GetOutcomes(resourceGroup, name, w)}

\* the check of resourceMonitorActivityLogAlertCreateUpdate on a new
\* resource, after existing, err := client.Get(...):
\* if err != nil { if !utils.ResponseWasNotFound(existing.Response) { return fmt.Errorf(...) } }
\* if existing.ID != nil && *existing.ID != "" { return tf.ImportAsExistsError(...) }
ExistingCheck(existing) ==
    IF existing.failed /\ ~ResponseWasNotFound(existing)
    THEN [kind |-> "ErrorCheckingForPresence", key |-> "", wrap |-> ""]
    ELSE IF existing.ID # NilID /\ existing.ID # <<"">>
    THEN [kind |-> "ImportAsExistsError", key |-> "", wrap |-> ""]
    ELSE NoErr

-----------------------------------------------------------------------------
(* The three parts of the model are exercised apart: while one runs, the   *)
(* variables of the other two rest at these values.                        *)

IdIdle ==
    /\ input = NoInput
    /\ id = NilId
    /\ err = NoErr
    /\ out = NoStr
    /\ ops = <<>>
    /\ id0 = NilId
    /\ warnings = <<>>
    /\ errors = <<>>

CriteriaIdle ==
    /\ criteria = NoCriteria
    /\ condition = NilCondition
    /\ flat = NoFlat
    /\ cops = <<>>

CrudIdle ==
    /\ d = [Id |-> <<"">>, name |-> "", resource_group_name |-> "", enabled |-> FALSE,
             criteria |-> <<>>, IsNewResource |-> FALSE]
    /\ remote = {}
    /\ remoteEnabled = {}
    /\ remoteCondition = <<>>
    /\ ret = NoErr
    /\ calls = <<>>
    /\ crud = ""
    /\ pc = ""
    /\ prior = [d |-> d, remote |-> remote, remoteEnabled |-> remoteEnabled,
                remoteCondition |-> remoteCondition]
    /\ others = FALSE

-----------------------------------------------------------------------------
(* Activity log alert: the CRUD functions as steps *)

AlertNames == {"alert1", "alert2"}
AlertKeys == {<<"example-resource-group", n>> : n \in AlertNames}

\* the IDs the resource data may hold: of an alert, of a resource of
\* another type, with a component missing, without a subscription, empty
StoredIDs ==
    {AlertID("example-resource-group", n) : n \in AlertNames}
    \cup {<<"", "subscriptions", "12345678-1234-9876-4563-123456789012", "resourceGroups",
            "example-resource-group", "providers", "microsoft.insights", "metricAlerts", "alert1">>,
          <<"", "subscriptions", "12345678-1234-9876-4563-123456789012", "resourceGroups">>,
          <<"", "resourceGroups", "example-resource-group">>,
          <<"">>}

\* any resource data (a resource that is new has no ID yet), any alerts;
\* one CRUD function is then called
CrudInit ==
    /\ d \in [Id : StoredIDs, name : {"alert1"},
              resource_group_name : {"example-resource-group"}, enabled : BOOLEAN,
              criteria : StoredCriteria, IsNewResource : BOOLEAN]
    /\ d.IsNewResource => d.Id = <<"">>
    /\ remote \in SUBSET AlertKeys
    /\ remoteEnabled \in SUBSET remote
    /\ remoteCondition \in [remote -> StoredConditions]
    /\ ret = NoErr
    /\ calls = <<>>
    /\ crud = ""
    /\ pc = ""
    /\ prior = [d |-> d, remote |-> remote, remoteEnabled |-> remoteEnabled,
                remoteCondition |-> remoteCondition]
    /\ others = FALSE
    /\ IdIdle
    /\ CriteriaIdle

\* resourceMonitorActivityLogAlertDelete
Delete ==
    LET parsed == ParseAzureResourceID(d.Id)
        resourceGroup == parsed.ResourceGroup
        name == parsed.Path["activityLogAlerts"]
    IN  /\ crud = ""
        /\ crud' = "Delete"
        /\ IF parsed.err # NoErr
           THEN /\ ret' = parsed.err
                /\ calls' = <<>>
                /\ UNCHANGED <<remote, remoteEnabled, remoteCondition>>
           ELSE \E o \in ApiOutcomes :
                /\ WasNotFound(o) => <<resourceGroup, name>> \notin remote
                /\ calls' = <<[api |-> "Delete", resourceGroup |-> resourceGroup,
                               name |-> name, failed |-> o.failed, status |-> o.status]>>
                /\ remote' = IF o.failed THEN remote ELSE remote \ {<<resourceGroup, name>>}
                /\ remoteEnabled' = remoteEnabled \cap remote'
                /\ remoteCondition' = [k \in remote' |-> remoteCondition[k]]
                /\ ret' = DeleteReturns(o)
        /\ UNCHANGED <<d, pc, prior, others, idVars, criteriaVars>>

\* the framework that called resourceMonitorActivityLogAlertDelete: a
\* Delete that returned nil is a successful removal, after which the
\* resource is gone from the state (its ID is empty); after an error the
\* state stays as it is
Destroy ==
    /\ crud = "Delete"
    /\ crud' = "Destroy"
    /\ d' = IF ret = NoErr THEN [d EXCEPT !.Id = <<"">>] ELSE d
    /\ UNCHANGED <<remote, remoteEnabled, remoteCondition, ret, calls, pc, prior, others,
                   idVars, criteriaVars>>

\* resourceMonitorActivityLogAlertRead
Read ==
    /\ crud = ""
    /\ \E r \in resourceMonitorActivityLogAlertRead(
                    d, World(remote, remoteEnabled, remoteCondition)) :
        /\ crud' = "Read"
        /\ d' = r.d
        /\ ret' = r.ret
        /\ calls' = r.calls
        /\ UNCHANGED <<remote, remoteEnabled, remoteCondition, pc, prior, others,
                       idVars, criteriaVars>>

\* resourceMonitorActivityLogAlertCreateUpdate on a new resource, up to the
\* return of the existence check or to where it waits for CreateOrUpdate:
\* existing, err := client.Get(ctx, resourceGroup, name), then the check
CreateUpdateCheck ==
    /\ crud = ""
    /\ d.IsNewResource
    /\ \E existing \in GetOutcomes(d.resource_group_name, d.name,
                                   World(remote, remoteEnabled, remoteCondition)) :
        /\ crud' = "CreateUpdate"
        /\ calls' = <<GetCall(d.resource_group_name, d.name, existing)>>
        /\ ret' = ExistingCheck(existing)
        /\ pc' = IF ExistingCheck(existing) # NoErr THEN "" ELSE "L238"
    /\ UNCHANGED <<d, remote, remoteEnabled, remoteCondition, prior, others,
                   idVars, criteriaVars>>

\* resourceMonitorActivityLogAlertCreateUpdate from the building of the
\* parameters to the return of client.CreateOrUpdate (the first call when
\* the resource is not new): enabled and the expanded criteria of the
\* resource data are sent; a call that fails leaves the alerts as they are
\* and is returned, one that succeeds leaves the alert as sent
CreateUpdateSend ==
    LET name == d.name
        resourceGroup == d.resource_group_name
        parameters == [Enabled |-> d.enabled,
                       Condition |-> expandMonitorActivityLogAlertCriteria(d.criteria)]
        sent == With(World(remote, remoteEnabled, remoteCondition),
                     <<resourceGroup, name>>, parameters.Enabled, parameters.Condition)
    IN  /\ \/ crud = "" /\ ~d.IsNewResource
           \/ crud = "CreateUpdate" /\ pc = "L238"
        /\ crud' = "CreateUpdate"
        /\ \E o \in ApiOutcomes :
            /\ calls' = Append(calls, CreateOrUpdateCall(resourceGroup, name, o))
            /\ IF o.failed
               THEN /\ ret' = [kind |-> "ErrorCreatingOrUpdating", key |-> "", wrap |-> ""]
                    /\ pc' = ""
                    /\ UNCHANGED <<remote, remoteEnabled, remoteCondition>>
               ELSE /\ ret' = NoErr
                    /\ pc' = "L242"
                    /\ remote' = sent.remote
                    /\ remoteEnabled' = sent.remoteEnabled
                    /\ remoteCondition' = sent.remoteCondition
        /\ UNCHANGED <<d, prior, others, idVars, criteriaVars>>

\* resourceMonitorActivityLogAlertCreateUpdate from
\* read, err := client.Get(ctx, resourceGroup, name) to d.SetId(*read.ID):
\* a call that fails and a response without an ID are returned as errors
CreateUpdateGet ==
    /\ crud = "CreateUpdate"
    /\ pc = "L242"
    /\ \E read \in GetOutcomes(d.resource_group_name, d.name,
                               World(remote, remoteEnabled, remoteCondition)) :
        /\ calls' = Append(calls, GetCall(d.resource_group_name, d.name, read))
        /\ IF read.failed
           THEN /\ ret' = [kind |-> "ErrorFromGet", key |-> "", wrap |-> ""]
                /\ pc' = ""
                /\ d' = d
           ELSE IF read.ID = NilID
           THEN /\ ret' = [kind |-> "IDIsEmpty", key |-> "", wrap |-> ""]
                /\ pc' = ""
                /\ d' = d
           ELSE /\ ret' = NoErr
                /\ pc' = "L251"
                /\ d' = [d EXCEPT !.Id = read.ID]
    /\ UNCHANGED <<crud, remote, remoteEnabled, remoteCondition, prior, others,
                   idVars, criteriaVars>>

\* resourceMonitorActivityLogAlertCreateUpdate at
\* return resourceMonitorActivityLogAlertRead(d, meta)
CreateUpdateRead ==
    /\ crud = "CreateUpdate"
    /\ pc = "L251"
    /\ \E r \in resourceMonitorActivityLogAlertRead(
                    d, World(remote, remoteEnabled, remoteCondition)) :
        /\ d' = r.d
        /\ ret' = r.ret
        /\ calls' = calls \o r.calls
    /\ pc' = ""
    /\ UNCHANGED <<crud, remote, remoteEnabled, remoteCondition, prior, others,
                   idVars, criteriaVars>>

\* resourceMonitorActivityLogAlertCreateUpdate, call by call
CreateUpdate ==
    \/ CreateUpdateCheck
    \/ CreateUpdateSend
    \/ CreateUpdateGet
    \/ CreateUpdateRead

\* while resourceMonitorActivityLogAlertCreateUpdate waits between two of
\* its calls, another actor deletes, creates or changes the alert it is
\* about (the alerts it is not about do not reach it)
OtherActor ==
    /\ crud = "CreateUpdate"
    /\ pc # ""
    /\ \E w \in Worlds(World(remote, remoteEnabled, remoteCondition),
                       <<d.resource_group_name, d.name>>) :
        /\ w # World(remote, remoteEnabled, remoteCondition)
        /\ remote' = w.remote
        /\ remoteEnabled' = w.remoteEnabled
        /\ remoteCondition' = w.remoteCondition
    /\ others' = TRUE
    /\ UNCHANGED <<d, ret, calls, crud, pc, prior, idVars, criteriaVars>>

CrudNext == Delete \/ Destroy \/ Read \/ CreateUpdate \/ OtherActor

SpecCrud == CrudInit /\ [][CrudNext]_vars

-----------------------------------------------------------------------------
(* expand and flatten as steps *)

\* resourceMonitorActivityLogAlertCreateUpdate expands the criteria block
Expand ==
    /\ criteria # NoCriteria /\ cops = <<>>
    /\ condition' = expandMonitorActivityLogAlertCriteria(<<criteria>>)
    /\ cops' = <<"expand">>
    /\ UNCHANGED <<criteria, flat, idVars, crudVars>>

\* resourceMonitorActivityLogAlertRead flattens the condition of the response
Flatten ==
    /\ cops = IF criteria = NoCriteria THEN <<>> ELSE <<"expand">>
    /\ flat' = flattenMonitorActivityLogAlertCriteria(condition)
    /\ cops' = Append(cops, "flatten")
    /\ UNCHANGED <<criteria, condition, idVars, crudVars>>

\* a criteria block is expanded and the result flattened
CriteriaInit ==
    /\ criteria \in CriteriaInputs
    /\ condition = NilCondition
    /\ flat = NoFlat
    /\ cops = <<>>
    /\ IdIdle
    /\ CrudIdle

CriteriaNext == Expand \/ Flatten

SpecCriteria == CriteriaInit /\ [][CriteriaNext]_vars

\* a response of the API is flattened
ResponseInit ==
    /\ criteria = NoCriteria
    /\ condition \in Responses(MaxConditions)
    /\ flat = NoFlat
    /\ cops = <<>>
    /\ IdIdle
    /\ CrudIdle

ResponseNext == Flatten

SpecResponse == ResponseInit /\ [][ResponseNext]_vars

-----------------------------------------------------------------------------
(* Inputs of the resource ID functions *)

\* the well-formed ID of the examples
Canonical ==
    ID(NewVerifierWorkspaceID(<<"12345678-1234-9876-4563-123456789012">>,
                              <<"example-resource-group">>, <<"mgr1">>, <<"ws1">>))

\* the same literal in another letter case
CaseVariant(w) ==
    CASE w = "subscriptions" -> "SUBSCRIPTIONS"
      [] w = "resourceGroups" -> "resourcegroups"
      [] w = "providers" -> "Providers"
      [] w = "Microsoft.Network" -> "microsoft.network"
      [] w = "networkManagers" -> "NETWORKMANAGERS"
      [] w = "verifierWorkspaces" -> "verifierworkspaces"
      [] OTHER -> w

\* what a component may be replaced by
Alternatives(w) ==
    IF CaseVariant(w) # w
    THEN {CaseVariant(w), "storageAccounts", ""}
    ELSE {"", "other"} \ {w}

\* the strings one change away from s: a component replaced, the tail cut
\* off, a component or a slash added at the end, the leading slash removed
Edits(s) ==
    {[s EXCEPT ![j] = w] : <<j, w>> \in
        {<<j, w>> \in (1..Len(s)) \X {"SUBSCRIPTIONS", "resourcegroups", "Providers",
                                       "microsoft.network", "NETWORKMANAGERS",
                                       "verifierworkspaces", "storageAccounts", "", "other"} :
            j > 1 /\ w \in Alternatives(s[j])}}
    \cup {SubSeq(s, 1, j) : j \in 1..(Len(s) - 1)}
    \cup {Append(s, "extra"), Append(s, "")}
    \cup (IF Len(s) > 1 /\ s[1] = "" THEN {Tail(s)} ELSE {})

RECURSIVE EditsUpTo(_)
EditsUpTo(k) ==
    IF k = 0 THEN {Canonical}
    ELSE LET S == EditsUpTo(k - 1) IN S \cup UNION {Edits(s) : s \in S}

\* the values handed to the parse and validate functions
Inputs ==
    {[type |-> "string", val |-> s] : s \in EditsUpTo(MaxEdits)}
    \cup {[type |-> "int", val |-> NoStr], [type |-> "nil", val |-> NoStr]}

\* the values handed to NewVerifierWorkspaceID, per field: two plain names,
\* the empty string and a value with a slash in it
SubscriptionIds == {<<"12345678-1234-9876-4563-123456789012">>, <<"sub2">>, <<"">>, <<"sub", "x">>}
ResourceGroupNames == {<<"example-resource-group">>, <<"rg2">>, <<"">>, <<"rg", "x">>}
NetworkManagerNames == {<<"mgr1">>, <<"mgr2">>, <<"">>, <<"mgr", "x">>}
VerifierWorkspaceNames == {<<"ws1">>, <<"ws2">>, <<"">>, <<"", "ws">>}

\* the ParseResult.Parsed maps handed to FromParseResult directly
ParsedMaps ==
    {[k \in D |-> <<k>>] : D \in SUBSET {DynamicKeys[i] : i \in 1..Len(DynamicKeys)}}

\* the receivers FromParseResult is called on: a fresh VerifierWorkspaceId{},
\* one that holds an ID already, and a nil pointer
Receivers ==
    {ZeroId, NewVerifierWorkspaceID(<<"sub2">>, <<"rg2">>, <<"mgr2">>, <<"ws2">>), NilId}

-----------------------------------------------------------------------------
(* The resource ID functions as steps *)

IdInit ==
    /\ input \in Inputs \cup {NoInput}
    /\ id = NilId
    /\ err = NoErr
    /\ out = NoStr
    /\ ops = <<>>
    /\ id0 = NilId
    /\ warnings = <<>>
    /\ errors = <<>>
    /\ CriteriaIdle
    /\ CrudIdle

\* a caller builds an ID from four values
New ==
    /\ input = NoInput /\ ops = <<>>
    /\ \E sub \in SubscriptionIds, rg \in ResourceGroupNames,
          mgr \in NetworkManagerNames, ws \in VerifierWorkspaceNames :
          id' = NewVerifierWorkspaceID(sub, rg, mgr, ws)
    /\ ops' = <<"New">>
    /\ UNCHANGED <<input, err, out, id0, warnings, errors, criteriaVars, crudVars>>

\* a caller formats the ID it holds
Format ==
    /\ id # NilId /\ Len(ops) = 1
    /\ out' = ID(id)
    /\ id0' = id
    /\ ops' = Append(ops, "ID")
    /\ UNCHANGED <<input, id, err, warnings, errors, criteriaVars, crudVars>>

\* ParseVerifierWorkspaceID on the input string
ParseInput ==
    /\ input.type = "string" /\ ops = <<>>
    /\ \E r \in ParseVerifierWorkspaceID(input.val) :
          /\ id' = r.id
          /\ err' = r.err
    /\ ops' = <<"Parse">>
    /\ UNCHANGED <<input, out, id0, warnings, errors, criteriaVars, crudVars>>

\* ParseVerifierWorkspaceIDInsensitively on the input string
ParseInputInsensitively ==
    /\ input.type = "string" /\ ops = <<>>
    /\ \E r \in ParseVerifierWorkspaceIDInsensitively(input.val) :
          /\ id' = r.id
          /\ err' = r.err
    /\ ops' = <<"ParseInsensitively">>
    /\ UNCHANGED <<input, out, id0, warnings, errors, criteriaVars, crudVars>>

\* ParseVerifierWorkspaceID on the string ID() returned for a built ID
ParseOutput ==
    /\ ops = <<"New", "ID">>
    /\ \E r \in ParseVerifierWorkspaceID(out) :
          /\ id' = r.id
          /\ err' = r.err
    /\ ops' = <<"New", "ID", "Parse">>
    /\ UNCHANGED <<input, out, id0, warnings, errors, criteriaVars, crudVars>>

\* FromParseResult on a receiver and a ParseResult of the caller's; id0 is
\* the receiver before the call, id the receiver after it
ApplyFromParseResult ==
    /\ input = NoInput /\ ops = <<>>
    /\ \E parsed \in ParsedMaps, recv \in Receivers :
          /\ input' = [type |-> "ParseResult", val |-> parsed]
          /\ id0' = recv
          /\ id' = FromParseResult(recv, parsed).id
          /\ err' = FromParseResult(recv, parsed).err
    /\ ops' = <<"FromParseResult">>
    /\ UNCHANGED <<out, warnings, errors, criteriaVars, crudVars>>

\* ValidateVerifierWorkspaceID on the input value
Validate ==
    /\ input # NoInput /\ ops = <<>>
    /\ \E r \in ValidateVerifierWorkspaceID(input) :
          /\ warnings' = r.warnings
          /\ errors' = r.errors
    /\ ops' = <<"Validate">>
    /\ UNCHANGED <<input, id, err, out, id0, criteriaVars, crudVars>>

IdNext ==
    \/ New
    \/ Format
    \/ ParseInput
    \/ ParseInputInsensitively
    \/ ParseOutput
    \/ ApplyFromParseResult
    \/ Validate

SpecId == IdInit /\ [][IdNext]_vars

-----------------------------------------------------------------------------
(* Claims about the resource ID *)

\* a field value that is one non-empty word: non-empty and free of slashes
PlainValue(f) == Len(f) = 1 /\ f[1] # ""

PlainFields(v) ==
    /\ PlainValue(v.SubscriptionId)
    /\ PlainValue(v.ResourceGroupName)
    /\ PlainValue(v.NetworkManagerName)
    /\ PlainValue(v.VerifierWorkspaceName)

\* the indices of the static and of the capturing segments
StaticPositions == {i \in 1..Len(Segments) : IsStaticType(Segments[i].type)}
DynamicPositions == (1..Len(Segments)) \ StaticPositions

\* the capturing segments whose component is empty or absent in s
MissingIn(s) ==
    {i \in DynamicPositions : i > Len(Components(s)) \/ Components(s)[i] = ""}

\* C1: an ID built from four non-empty, slash-free values, formatted by ID()
\* and parsed by ParseVerifierWorkspaceID, comes back without error and with
\* the four original field values.
C1_RoundTrip ==
    (ops = <<"New", "ID", "Parse">> /\ PlainFields(id0))
        => (err = NoErr /\ id = id0)

C1_Witness ==
    /\ ops = <<"New", "ID", "Parse">>
    /\ PlainFields(id0)
    /\ id = id0
    /\ id.NetworkManagerName = <<"mgr2">>

\* C2 as stated: ID() of the value ParseVerifierWorkspaceID returned for s
\* is s itself, for every accepted s.
C2_ParseThenFormatIsInput ==
    ops = <<"Parse", "ID">> => out = input.val

\* C2 amended: ID() of the value ParseVerifierWorkspaceID returned for s is
\* the ten components of s behind one leading slash with the provider
\* namespace spelled Microsoft.Network; it is s itself when s begins with a
\* slash and spells the provider namespace that way.
C2_ParseThenFormatIsCanonical ==
    ops = <<"Parse", "ID">> =>
        LET c == Components(input.val) IN
        /\ Len(c) = 10
        /\ out = <<"">> \o [c EXCEPT ![6] = "Microsoft.Network"]
        /\ (input.val[1] = "" /\ c[6] = "Microsoft.Network") => out = input.val

C2_Witness ==
    /\ ops = <<"Parse", "ID">>
    /\ input.val = Canonical
    /\ out = input.val

\* C3: whenever a capturing component of the input (subscriptionId,
\* resourceGroupName, networkManagerName, verifierWorkspaceName) is empty or
\* absent, ParseVerifierWorkspaceID and ParseVerifierWorkspaceIDInsensitively
\* fail with a segment-not-specified error that names a segment whose
\* component is empty or absent, and return no VerifierWorkspaceId.
\* FromParseResult, where the code itself builds that error, returns it for
\* a ParseResult that lacks a key, naming the first key that is lacking.
C3_MissingAlwaysNotSpecified ==
    /\ (ops \in {<<"Parse">>, <<"ParseInsensitively">>} /\ MissingIn(input.val) # {})
        => /\ id = NilId
           /\ err.kind = "SegmentNotSpecified"
           /\ \E i \in MissingIn(input.val) : err.key = Segments[i].name
    /\ (ops = <<"FromParseResult">> /\ id0 # NilId
        /\ \E i \in 1..Len(DynamicKeys) : DynamicKeys[i] \notin DOMAIN input.val)
        => /\ err.kind = "SegmentNotSpecified"
           /\ \E i \in 1..Len(DynamicKeys) :
                /\ err.key = DynamicKeys[i]
                /\ DynamicKeys[i] \notin DOMAIN input.val
                /\ \A j \in 1..(i - 1) : DynamicKeys[j] \in DOMAIN input.val

C3_Witness ==
    /\ ops = <<"Parse">>
    /\ MissingIn(input.val) = {8}
    /\ Len(Components(input.val)) = 10
    /\ id = NilId
    /\ err.kind = "SegmentNotSpecified"
    /\ err.key = "networkManagerName"

\* C4 as stated: ParseVerifierWorkspaceID fails whenever the component at a
\* static position is another string than the declared literal.
C4_DifferentLiteralFails ==
    (ops = <<"Parse">>
     /\ \E i \in StaticPositions :
            /\ i <= Len(Components(input.val))
            /\ Components(input.val)[i] # Segments[i].value)
        => (err # NoErr /\ id = NilId)

\* C4 amended: ParseVerifierWorkspaceID fails whenever the component at a
\* static position is another string than the declared literal, except that
\* the provider namespace is compared ignoring letter case.
C4_MismatchFails ==
    (ops = <<"Parse">>
     /\ \E i \in StaticPositions :
            /\ i <= Len(Components(input.val))
            /\ IF Segments[i].type = "ResourceProvider"
               THEN ~EqualFold(Components(input.val)[i], Segments[i].value)
               ELSE Components(input.val)[i] # Segments[i].value)
        => (err # NoErr /\ id = NilId)

C4_Witness ==
    /\ ops = <<"Parse">>
    /\ Len(Components(input.val)) = 10
    /\ MissingIn(input.val) = {}
    /\ Components(input.val)[9] = "storageAccounts"
    /\ err.kind = "SegmentMismatch"
    /\ id = NilId

\* s differs from an accepted ID at most in the letter case of static literals
CaseOnlyDiffers(s) ==
    /\ Len(Components(s)) = Len(Segments)
    /\ MissingIn(s) = {}
    /\ \A i \in StaticPositions : EqualFold(Components(s)[i], Segments[i].value)

\* the static positions of s that hold the literal in another letter case
WrongCased(s) ==
    {i \in StaticPositions :
        /\ i <= Len(Components(s))
        /\ Components(s)[i] # Segments[i].value
        /\ EqualFold(Components(s)[i], Segments[i].value)}

\* C5 as stated: the insensitive parse accepts any casing of the static
\* literals, and the case-sensitive parse rejects every input in which some
\* static literal is wrong-cased.
C5_SensitiveRejectsAnyWrongCase ==
    /\ (ops = <<"ParseInsensitively">> /\ CaseOnlyDiffers(input.val)) => err = NoErr
    /\ (ops = <<"Parse">> /\ WrongCased(input.val) # {}) => err # NoErr

\* C5 amended: the insensitive parse accepts any casing of the static
\* literals; the case-sensitive parse rejects every input in which a static
\* literal other than the provider namespace is wrong-cased, and accepts an
\* input whose only deviation is the letter case of the provider namespace.
C5_CaseModes ==
    /\ (ops = <<"ParseInsensitively">> /\ CaseOnlyDiffers(input.val))
        => (err = NoErr /\ id # NilId)
    /\ (ops = <<"Parse">>
        /\ \E i \in WrongCased(input.val) : Segments[i].type = "Static")
        => (err # NoErr /\ id = NilId)
    /\ (ops = <<"Parse">> /\ CaseOnlyDiffers(input.val)
        /\ \A i \in WrongCased(input.val) : Segments[i].type = "ResourceProvider")
        => (err = NoErr /\ id # NilId)

C5_Witness ==
    /\ ops = <<"ParseInsensitively">>
    /\ CaseOnlyDiffers(input.val)
    /\ Cardinality(WrongCased(input.val)) = 2
    /\ err = NoErr
    /\ id # NilId

\* C6: ValidateVerifierWorkspaceID returns no errors exactly when the input
\* is a string ParseVerifierWorkspaceID accepts, and never any warning.
C6_Validate ==
    ops = <<"Validate">> =>
        /\ (errors = <<>>) <=>
              (input.type = "string"
               /\ \E r \in ParseVerifierWorkspaceID(input.val) : r.err = NoErr)
        /\ input.type # "string" => Len(errors) = 1
        /\ input.val = <<"">> => Len(errors) = 1
        /\ warnings = <<>>

C6_Witness ==
    /\ ops = <<"Validate">>
    /\ input.type = "string"
    /\ input.val = Canonical
    /\ errors = <<>>
    /\ warnings = <<>>

-----------------------------------------------------------------------------
(* Claims about expand and flatten *)

\* the criteria fields in the order the claims list them: the key of the
\* schema and the field name of the API
CriteriaFields ==
    << [key |-> "category", field |-> "category"],
       [key |-> "operation_name", field |-> "operationName"],
       [key |-> "caller", field |-> "caller"],
       [key |-> "level", field |-> "level"],
       [key |-> "resource_provider", field |-> "resourceProvider"],
       [key |-> "resource_type", field |-> "resourceType"],
       [key |-> "resource_group", field |-> "resourceGroup"],
       [key |-> "resource_id", field |-> "resourceId"],
       [key |-> "status", field |-> "status"],
       [key |-> "sub_status", field |-> "subStatus"],
       [key |-> "recommendation_type", field |-> "properties.recommendationType"],
       [key |-> "recommendation_category", field |-> "properties.recommendationCategory"],
       [key |-> "recommendation_impact", field |-> "properties.recommendationImpact"] >>

\* the places of CriteriaFields whose field of the criteria block is set
SetFields == {n \in 1..Len(CriteriaFields) : criteria[CriteriaFields[n].key] # ""}

\* C7: expand yields one condition per non-empty criteria field and none
\* for an empty one, in the fixed order of CriteriaFields: the i-th
\* condition is the one of the i-th non-empty field, with its value.
C7_ExpandOnePerSetField ==
    cops = <<"expand">> =>
        LET cs == condition.AllOf.elems IN
        /\ ~condition.nil /\ ~condition.AllOf.nil
        /\ Len(cs) = Cardinality(SetFields)
        /\ \A i \in 1..Len(cs) :
             \E n \in SetFields :
                /\ Cardinality({m \in SetFields : m < n}) = i - 1
                /\ cs[i].Field = CriteriaFields[n].field
                /\ cs[i].Equals = criteria[CriteriaFields[n].key]

C7_Witness ==
    /\ cops = <<"expand">>
    /\ SetFields = {1}
    /\ criteria["category"] = "Administrative"
    /\ condition.AllOf.elems = <<[Field |-> "category", Equals |-> "Administrative"]>>

\* C8: flatten of what expand made of a criteria block is a single map that
\* holds every non-empty field of the block with its value, and holds every
\* empty field of the block not at all or as the empty string.
C8_FlattenInvertsExpand ==
    cops = <<"expand", "flatten">> =>
        /\ Len(flat) = 1
        /\ \A k \in CriteriaKeys :
             IF criteria[k] # ""
             THEN k \in DOMAIN flat[1] /\ flat[1][k] = criteria[k]
             ELSE k \notin DOMAIN flat[1] \/ flat[1][k] = ""

C8_Witness ==
    /\ cops = <<"expand", "flatten">>
    /\ Cardinality(SetFields) = 3
    /\ criteria["resource_type"] # ""
    /\ Len(flat) = 1
    /\ DOMAIN flat[1] = {CriteriaFields[n].key : n \in SetFields}
    /\ flat[1]["resource_type"] = criteria["resource_type"]

\* C9: flatten stores the value of every condition of a response whose
\* field name is, ignoring letter case, the API's name of a criteria field
\* under the schema key of that field.  (Of several conditions on the same
\* field the last one is the one stored.)
C9_FlattenIgnoresFieldCase ==
    (cops = <<"flatten">> /\ ~condition.nil /\ ~condition.AllOf.nil) =>
        LET cs == condition.AllOf.elems IN
        \A i \in 1..Len(cs) : \A n \in 1..Len(CriteriaFields) :
            (/\ cs[i].Field # Nil
             /\ cs[i].Equals # Nil
             /\ EqualFold(cs[i].Field, CriteriaFields[n].field)
             /\ \A j \in (i + 1)..Len(cs) :
                    cs[j].Field = Nil \/ cs[j].Equals = Nil
                    \/ ~EqualFold(cs[j].Field, cs[i].Field))
            => /\ Len(flat) = 1
               /\ CriteriaFields[n].key \in DOMAIN flat[1]
               /\ flat[1][CriteriaFields[n].key] = cs[i].Equals

-----------------------------------------------------------------------------
(* Claims about the CRUD functions *)

\* Delete was called and its Delete call was answered not-found
DeleteAnsweredNotFound ==
    /\ crud \in {"Delete", "Destroy"}
    /\ Len(calls) = 1
    /\ calls[1].api = "Delete"
    /\ calls[1].failed
    /\ calls[1].status = StatusNotFound

\* Delete was called and its Delete call failed otherwise
DeleteFailedOtherwise ==
    /\ crud \in {"Delete", "Destroy"}
    /\ Len(calls) = 1
    /\ calls[1].api = "Delete"
    /\ calls[1].failed
    /\ calls[1].status # StatusNotFound

\* C10: when the Delete call answers not-found,
\* resourceMonitorActivityLogAlertDelete returns no error (leaving the
\* resource data as it is) and the delete operation ends with the local
\* state cleared: the framework, given nil, removes the resource from the
\* state; any other failure of the call (another status, no response) is
\* returned as an error, and the state is kept.
C10_DeleteNotFoundClearsState ==
    /\ DeleteAnsweredNotFound =>
          /\ ret = NoErr
          /\ crud = "Delete" => d = prior.d
          /\ crud = "Destroy" => d.Id = <<"">>
    /\ DeleteFailedOtherwise =>
          /\ ret # NoErr
          /\ d = prior.d

C10_Witness ==
    /\ crud = "Destroy"
    /\ DeleteAnsweredNotFound
    /\ ret = NoErr
    /\ prior.d.Id = AlertID("example-resource-group", "alert1")
    /\ d.Id = <<"">>
    /\ remote = {}

\* the step is a run of Read, of Delete: the steps that leave crud at its name
ReadRan == crud' = "Read"
DeleteRan == crud' = "Delete"

\* the last CRUD function was Read and its Get call was answered not-found
ReadAnsweredNotFound ==
    /\ crud = "Read"
    /\ Len(calls) = 1
    /\ calls[1].api = "Get"
    /\ calls[1].failed
    /\ calls[1].status = StatusNotFound

\* the last CRUD function was Read and its Get call failed otherwise
ReadFailedOtherwise ==
    /\ crud = "Read"
    /\ Len(calls) = 1
    /\ calls[1].api = "Get"
    /\ calls[1].failed
    /\ calls[1].status # StatusNotFound

\* C11: when the Get call of resourceMonitorActivityLogAlertRead answers
\* not-found, Read sets the ID of the resource data to the empty string,
\* sets no other field and returns no error; when the Get call fails in any
\* other way (another status, no response), Read returns an error and the
\* ID is as it was.
C11_ReadNotFoundRemovesFromState ==
    [][ ReadRan =>
          /\ ReadAnsweredNotFound' =>
                (ret' = NoErr /\ d' = [d EXCEPT !.Id = <<"">>])
          /\ ReadFailedOtherwise' =>
                (ret' # NoErr /\ d'.Id = d.Id) ]_vars

C11_Witness ==
    /\ ReadAnsweredNotFound
    /\ calls[1].name = "alert2"
    /\ ret = NoErr
    /\ d.Id = <<"">>
    /\ d.name = "alert1"
    /\ <<"example-resource-group", "alert2">> \notin remote

\* the alert CreateUpdate is about: the one of the name and resource group
\* of the resource data
ConfiguredKey == <<d.resource_group_name, d.name>>

\* resourceMonitorActivityLogAlertCreateUpdate has returned
CreateUpdateReturned == crud = "CreateUpdate" /\ pc = ""

\* C12 as stated: every run of resourceMonitorActivityLogAlertCreateUpdate
\* either returns no error, with the remote alert as configured and the
\* resource data (ID and fields) matching it, or returns an error with the
\* remote alerts and the resource data both as they were before the run.
\* (Stated of the runs during which no other actor changed the alerts.)
C12_NoPartialSuccess ==
    (CreateUpdateReturned /\ ~others) =>
        \/ /\ ret = NoErr
           /\ ConfiguredKey \in remote
           /\ (ConfiguredKey \in remoteEnabled) = prior.d.enabled
           /\ remoteCondition[ConfiguredKey] =
                  expandMonitorActivityLogAlertCriteria(prior.d.criteria)
           /\ d = [prior.d EXCEPT !.Id = AlertID(d.resource_group_name, d.name)]
        \/ /\ ret # NoErr
           /\ remote = prior.remote
           /\ remoteEnabled = prior.remoteEnabled
           /\ remoteCondition = prior.remoteCondition
           /\ d = prior.d

\* the stored ID of the resource data does not parse
StoredIdIsMalformed == ParseAzureResourceID(d.Id).err # NoErr

\* C13: when the stored resource ID fails to parse,
\* resourceMonitorActivityLogAlertRead and
\* resourceMonitorActivityLogAlertDelete return the parse error, having
\* made no API call (no Get, no Delete) and changed neither the resource
\* data nor the remote alerts.
C13_ParseErrorBeforeAnyCall ==
    [][ (ReadRan \/ DeleteRan) /\ StoredIdIsMalformed =>
          /\ ret' = ParseAzureResourceID(d.Id).err
          /\ calls' = <<>>
          /\ d' = d
          /\ remote' = remote
          /\ remoteEnabled' = remoteEnabled
          /\ remoteCondition' = remoteCondition ]_vars

C13_Witness ==
    /\ crud = "Read"
    /\ StoredIdIsMalformed
    /\ d.Id = <<"", "subscriptions", "12345678-1234-9876-4563-123456789012", "resourceGroups">>
    /\ ret = ParseAzureResourceID(d.Id).err
    /\ ret # NoErr
    /\ calls = <<>>
    /\ remote # {}

\* the response of a Get call carries the ID of a resource
HasID(call) == ~call.failed /\ call.ID # NilID /\ call.ID # <<"">>

\* the step is the existence check of CreateUpdate on a new resource
CheckRan == crud = "" /\ crud' = "CreateUpdate" /\ d.IsNewResource

\* the step is the CreateOrUpdate call of CreateUpdate on a new resource
SendRan == d.IsNewResource /\ pc = "L238" /\ pc' # "L238" /\ Len(calls') = 2

\* C14 as stated: on a new resource,
\* resourceMonitorActivityLogAlertCreateUpdate never overwrites an alert
\* that exists.  When the existence-check Get returns a resource with a
\* non-empty ID the run returns the import-as-exists error without calling
\* CreateOrUpdate; when that Get fails with anything but not-found the run
\* returns an error without calling CreateOrUpdate; CreateOrUpdate is
\* called only after the check found no resource (it answered not-found),
\* and a CreateOrUpdate that succeeds finds no alert of that name.
C14_CreateNeverOverwrites ==
    [][ /\ CheckRan =>
            /\ Len(calls') = 1
            /\ calls'[1].api = "Get"
            /\ calls'[1].resourceGroup = d.resource_group_name
            /\ calls'[1].name = d.name
            /\ HasID(calls'[1]) => (ret'.kind = "ImportAsExistsError" /\ pc' = "")
            /\ (calls'[1].failed /\ calls'[1].status # StatusNotFound) =>
                    (ret' # NoErr /\ pc' = "")
        /\ SendRan =>
            /\ calls'[2].api = "CreateOrUpdate"
            /\ calls[1].failed /\ calls[1].status = StatusNotFound
            /\ ~calls'[2].failed => ConfiguredKey \notin remote ]_vars

====
